---------------------------- MODULE Spec2Model ----------------------------
(***************************************************************************)
(* CloudMart dashboard (app_final.py): one Streamlit session.              *)
(*                                                                         *)
(* The script is executed top to bottom on every user interaction.  One    *)
(* execution is modelled as the sequence of its sections (pc): the filter, *)
(* the five tabs, and the end of the script or the exception that halts    *)
(* it.  What survives from one execution to the next is the CSV file and   *)
(* the widget state (the four multiselects and the data editor); every     *)
(* script variable (df, filtered_df, untagged_df, ...) is rebuilt.         *)
(*                                                                         *)
(* A DataFrame is a record [columns, rows]: rows is a function from the    *)
(* index labels (row identities) to a record of cells.  Costs are integers *)
(* in cents.  AccountID and ResourceID are opaque cells that are only      *)
(* displayed and are left out.  String cells are the values after the      *)
(* strip()/replace('"','') cleaning of lines 26-28.                        *)
(***************************************************************************)
EXTENDS Integers, FiniteSets, Sequences, TLC

\* ------------------------------------------------------------- bounds
\* Number of data rows of the CSV file.
NRows == 2
\* Number of pending edit operations the data editor holds at a time.
MaxEdits == 1

Rows == 1..NRows

\* ------------------------------------------------------------- values
\* A missing string cell (pandas NaN/None in an object column).
NaN == "NaN"
\* A missing cost (pandas NaN in the float column); real costs are >= 0.
NaNCost == -1
\* A percentage that is NaN (0/0, or the mean of an empty series).
NaNPct == -1

tag_fields == {"Department", "Project", "Owner"}
FilterColumns == {"Service", "Region", "Department", "Project"}
Columns ==
    {"Service", "Region", "Department", "Project", "Owner", "Environment",
     "Tagged", "MonthlyCostUSD"}
ScoreColumns == {"TagCompletenessScore", "Tag Completeness %"}

\* A raw MonthlyCostUSD cell of the CSV: a number, or text that is no number.
Num(c) == [num |-> TRUE, val |-> c]
BadCost == [num |-> FALSE, val |-> 0]

RawRow(s, rg, d, p, o, e, t, c) ==
    [Service |-> s, Region |-> rg, Department |-> d, Project |-> p, Owner |-> o,
     Environment |-> e, Tagged |-> t, MonthlyCostUSD |-> c]

\* The rows a CSV file is made of.
RowPool ==
    { RawRow("EC2", "us", "Sales", "Web", "ann", "Prod", "Yes", Num(1000)),
      RawRow("EC2", "us", "Sales", "Web", NaN,   "Prod", "No",  Num(250)),
      RawRow("EC2", "us", "Sales", "Web", "ann", "Dev",  "No",  Num(405)),
      RawRow("EC2", "us", "Ops",   "Web", NaN,   "Dev",  "Yes", Num(0)),
      RawRow("EC2", "us", NaN,     "Web", "ann", "Dev",  "No",  Num(300)),
      RawRow("EC2", "us", "Sales", NaN,   NaN,   NaN,    "No",  BadCost),
      RawRow(NaN,   "us", "Sales", "Web", "ann", "Prod", "Yes", Num(150)),
      RawRow("EC2", NaN,  "Ops",   "Web", NaN,   "Prod", "No",  BadCost) }

\* The values a user types into a cell of the data editor.
EditValues == {"fixed", NaN}

VARIABLES
    file,            \* the CSV file read by pd.read_csv
    selected,        \* widget state: the four multiselects
    edits,           \* widget state: the data editor's pending operations
    pc,              \* position of the running script
    df,              \* the full table
    filtered_df,     \* the filtered view
    untagged_df,     \* the untagged subset
    metrics,         \* tab1: the three st.metric values and percent_untagged
    env_tag_cost,    \* tab2: Environment x Tagged cross-tab
    cost_comparison  \* tab5: before/after comparison

vars ==
    <<file, selected, edits, pc, df, filtered_df, untagged_df, metrics,
      env_tag_cost, cost_comparison>>

\* ------------------------------------------------------------- helpers
NoRows == [r \in {} |-> 0]
NoFrame == [columns |-> {}, rows |-> NoRows]
NoMetrics == [total |-> 0, tagged |-> 0, untagged |-> 0, percent_untagged |-> NaNPct]

Index(frame) == DOMAIN frame.rows

\* isna() of a cell: the numeric columns hold numbers, the others strings.
NumericColumns == {"MonthlyCostUSD", "TagCompletenessScore", "Tag Completeness %"}
IsNa(c, v) == IF c \in NumericColumns THEN v = NaNCost ELSE v = NaN

Max(S) == CHOOSE x \in S : \A y \in S : y <= x

\* round(100 * num / den, 2) in hundredths of a percent, ties to even; NaN for 0/0.
Round2(num, den) ==
    IF den = 0 THEN NaNPct
    ELSE LET q == (10000 * num) \div den
             r == (10000 * num) % den
         IN  IF 2 * r > den THEN q + 1
             ELSE IF 2 * r < den THEN q
             ELSE IF q % 2 = 0 THEN q ELSE q + 1

\* f"${x:,.2f}" of an amount in cents: the dollars and the two decimals.
Fmt(x) == <<x \div 100, x % 100>>

\* pd.to_numeric(..., errors='coerce')
ToNumeric(raw) == IF raw.num THEN raw.val ELSE NaNCost

LoadCsv(f) ==
    [columns |-> Columns,
     rows |-> [r \in DOMAIN f |->
                 [c \in Columns |->
                    IF c = "MonthlyCostUSD" THEN ToNumeric(f[r][c]) ELSE f[r][c]]]]

\* df[col].dropna().unique()
Options(frame, col) == {frame.rows[r][col] : r \in Index(frame)} \ {NaN}

\* Mutant of Isin: a missing cell matches every selection.
IsinOrMissing(v, values) == v \in values \cup {NaN}

\* Series.isin(values), one cell
Isin(v, values) == v \in values

\* The boolean mask of lines 49-52 and the selection df[mask].
FilterMask(frame, sel, r) ==
    /\ Isin(frame.rows[r]["Service"], sel["Service"])
    /\ Isin(frame.rows[r]["Region"], sel["Region"])
    /\ Isin(frame.rows[r]["Department"], sel["Department"])
    /\ Isin(frame.rows[r]["Project"], sel["Project"])

Select(frame, keep) ==
    [columns |-> frame.columns, rows |-> [r \in keep |-> frame.rows[r]]]

FilterRows(frame, sel) ==
    Select(frame, {r \in Index(frame) : FilterMask(frame, sel, r)})

\* frame[frame['Tagged'] == 'No']
Untagged(frame) == Select(frame, {r \in Index(frame) : frame.rows[r]["Tagged"] = "No"})

\* Series.sum() of MonthlyCostUSD over the rows S: NaN is skipped.
RECURSIVE SumCost(_, _)
SumCost(rows, S) ==
    IF S = {} THEN 0
    ELSE LET r == CHOOSE x \in S : TRUE
             c == rows[r]["MonthlyCostUSD"]
         IN  (IF c = NaNCost THEN 0 ELSE c) + SumCost(rows, S \ {r})

\* frame.groupby(col)['MonthlyCostUSD'].sum(): one entry per non-missing label.
GroupSum(frame, col) ==
    [l \in Options(frame, col) |->
        SumCost(frame.rows, {r \in Index(frame) : frame.rows[r][col] = l})]

\* frame.groupby([col,'Tagged'])['MonthlyCostUSD'].sum().unstack(fill_value=0)
CrossTab(frame, col) ==
    LET valid == {r \in Index(frame) :
                    frame.rows[r][col] # NaN /\ frame.rows[r]["Tagged"] # NaN}
    IN  [index |-> {frame.rows[r][col] : r \in valid},
         columns |-> {frame.rows[r]["Tagged"] : r \in valid},
         cell |-> [k \in {frame.rows[r][col] : r \in valid} |->
                     [t \in {frame.rows[r]["Tagged"] : r \in valid} |->
                        SumCost(frame.rows,
                                {r \in valid : frame.rows[r][col] = k
                                               /\ frame.rows[r]["Tagged"] = t})]]]

\* ------------------------------------------------------------- tab 1
\* Mutant of Tab1Metrics: the total is len(df), not len(filtered_df).
Tab1MetricsOverFullTable(frame) ==
    LET yes == Cardinality({r \in Index(frame) : frame.rows[r]["Tagged"] = "Yes"})
        no == Cardinality({r \in Index(frame) : frame.rows[r]["Tagged"] = "No"})
    IN  [total |-> Cardinality(Index(df)), tagged |-> yes, untagged |-> no,
         percent_untagged |-> Round2(no, Cardinality(Index(df)))]

\* Lines 89-95: len(filtered_df), the two counts, and mean() * 100 as it is
\* printed with two decimals.  The mean of an empty series is NaN.
Tab1Metrics(frame) ==
    LET total == Cardinality(Index(frame))
        yes == Cardinality({r \in Index(frame) : frame.rows[r]["Tagged"] = "Yes"})
        no == Cardinality({r \in Index(frame) : frame.rows[r]["Tagged"] = "No"})
    IN  [total |-> total, tagged |-> yes, untagged |-> no,
         percent_untagged |-> Round2(no, total)]

\* ------------------------------------------------------------- tab 2
\* Lines 155-163: a KeyError is raised unless the cross-tab has both the
\* "Yes" and the "No" column.
EnvTagCostRaises(frame) == ~ ({"Yes", "No"} \subseteq CrossTab(frame, "Environment").columns)

EnvTagCost(frame) ==
    LET ct == CrossTab(frame, "Environment")
    IN  [e \in ct.index |->
           LET tagged == ct.cell[e]["Yes"]
               untagged == ct.cell[e]["No"]
               total == tagged + untagged
           IN  [TaggedCost |-> Fmt(tagged),
                 UntaggedCost |-> Fmt(untagged),
                 TotalCost |-> Fmt(total),
                 PctUntagged |-> Round2(untagged, total)]]

\* ------------------------------------------------------------- tab 3
\* Lines 177-179: two columns are added to filtered_df.
TagCompletenessScore(row) == Cardinality({f \in tag_fields : row[f] # NaN})

WithScores(frame) ==
    [columns |-> frame.columns \cup ScoreColumns,
     rows |-> [r \in Index(frame) |->
                 [c \in frame.columns \cup ScoreColumns |->
                    IF c = "TagCompletenessScore" THEN TagCompletenessScore(frame.rows[r])
                    ELSE IF c = "Tag Completeness %"
                         THEN Round2(TagCompletenessScore(frame.rows[r]), 3)
                    ELSE frame.rows[r][c]]]]

\* ------------------------------------------------------------- tab 4
\* Lines 245-257: dept_tag_cost['Yes'] and ['No'] raise a KeyError when absent.
DeptTagCostRaises(frame) == ~ ({"Yes", "No"} \subseteq CrossTab(frame, "Department").columns)

\* ------------------------------------------------------------- tab 5
\* An edit operation held by the data editor: a cell edit, the removal of a
\* grid row, or an added row (row 0).
CellOps == [kind : {"cell"}, row : Rows, field : tag_fields, value : EditValues]
RowOps == [kind : {"delete"}, row : Rows, field : {"*"}, value : {NaN}]
AddOps == [kind : {"add"}, row : {0}, field : {"*"}, value : {"fixed"}]
EditOps == CellOps \cup RowOps \cup AddOps

SameTarget(a, b) == a.kind = b.kind /\ a.row = b.row /\ a.field = b.field

\* st.data_editor(untagged_df[tag_fields], num_rows="dynamic"): the grid after
\* the pending operations.  An added row gets the label after the largest one.
DataEditor(grid, ops) ==
    LET deleted == {o.row : o \in {x \in ops : x.kind = "delete"}}
        kept == Index(grid) \ deleted
        added == IF \E o \in ops : o.kind = "add"
                 THEN {IF Index(grid) = {} THEN 0 ELSE Max(Index(grid)) + 1}
                 ELSE {}
        Cell(r, f) ==
            IF \E o \in ops : o.kind = "cell" /\ o.row = r /\ o.field = f
            THEN (CHOOSE o \in ops : o.kind = "cell" /\ o.row = r /\ o.field = f).value
            ELSE grid.rows[r][f]
    IN  [columns |-> tag_fields,
         rows |-> [r \in kept \cup added |->
                     [f \in tag_fields |-> IF r \in kept THEN Cell(r, f) ELSE "fixed"]]]

\* untagged_df[tag_fields]
TagColumns(frame) ==
    [columns |-> tag_fields,
     rows |-> [r \in Index(frame) |-> [f \in tag_fields |-> frame.rows[r][f]]]]

\* Line 304, untagged_df[tag_fields] = edited_tags: aligned on the index of
\* untagged_df, a label absent from edited_tags gives NaN.
AssignTags(frame, edited) ==
    [columns |-> frame.columns,
     rows |-> [r \in Index(frame) |->
                 [c \in frame.columns |->
                    IF c \in tag_fields
                    THEN (IF r \in Index(edited) THEN edited.rows[r][c] ELSE NaN)
                    ELSE frame.rows[r][c]]]]

\* Mutant of Update: an assignment of the columns of other, which puts a
\* missing value wherever other has no row.
UpdateByAssignment(frame, other) ==
    [columns |-> frame.columns,
     rows |-> [r \in Index(frame) |->
                 [c \in frame.columns |->
                    IF c \in other.columns
                    THEN (IF r \in Index(other) THEN other.rows[r][c]
                          ELSE IF c = "MonthlyCostUSD" THEN NaNCost ELSE NaN)
                    ELSE frame.rows[r][c]]]]

\* Line 305, df.update(other): in place, non-NA values of other only, on the
\* labels and columns of df.
Update(frame, other) ==
    [columns |-> frame.columns,
     rows |-> [r \in Index(frame) |->
                 [c \in frame.columns |->
                    IF /\ c \in other.columns
                       /\ r \in Index(other)
                       /\ ~ IsNa(c, other.rows[r][c])
                    THEN other.rows[r][c]
                    ELSE frame.rows[r][c]]]]

\* Mutant of DeriveTagged: Tagged is recomputed both ways, "No" for a row
\* with a missing tag field.
DeriveTaggedBothWays(frame) ==
    [columns |-> frame.columns,
     rows |-> [r \in Index(frame) |->
                 [frame.rows[r] EXCEPT !["Tagged"] =
                    IF \A f \in tag_fields : frame.rows[r][f] # NaN THEN "Yes" ELSE "No"]]]

\* Line 306, df.loc[df[tag_fields].notnull().all(axis=1), 'Tagged'] = 'Yes'
DeriveTagged(frame) ==
    [columns |-> frame.columns,
     rows |-> [r \in Index(frame) |->
                 IF \A f \in tag_fields : frame.rows[r][f] # NaN
                 THEN [frame.rows[r] EXCEPT !["Tagged"] = "Yes"]
                 ELSE frame.rows[r]]]

\* Lines 299-306 on the full table.
Remediated(full, untagged, ops) ==
    DeriveTagged(Update(full, AssignTags(untagged, DataEditor(TagColumns(untagged), ops))))

\* Lines 321-331: "before" is grouped from df, "after" from filtered_df, and the
\* two are inner-joined on the Tagged status.
CostComparison(full, filtered) ==
    LET before == GroupSum(full, "Tagged")
        after == GroupSum(filtered, "Tagged")
    IN  [l \in (DOMAIN before) \cap (DOMAIN after) |->
           [Before |-> Fmt(before[l]),
             After |-> Fmt(after[l])]]

\* ------------------------------------------------------------- the session
\* Lines 35-45: the options and the default of each multiselect.
AllOptions(f) == [c \in FilterColumns |-> Options(LoadCsv(f), c)]

Init ==
    /\ file \in [Rows -> RowPool]
    /\ selected = AllOptions(file)
    /\ edits = {}
    /\ pc = "filter"
    /\ df = LoadCsv(file)
    /\ filtered_df = NoFrame
    /\ untagged_df = NoFrame
    /\ metrics = NoMetrics
    /\ env_tag_cost = NoRows
    /\ cost_comparison = NoRows

\* Lines 48-53.
Filter ==
    /\ pc = "filter"
    /\ filtered_df' = FilterRows(df, selected)
    /\ pc' = "tab1"
    /\ UNCHANGED <<file, selected, edits, df, untagged_df, metrics, env_tag_cost,
                   cost_comparison>>

\* Lines 69-95.
Tab1 ==
    /\ pc = "tab1"
    /\ metrics' = Tab1Metrics(filtered_df)
    /\ pc' = "tab2"
    /\ UNCHANGED <<file, selected, edits, df, filtered_df, untagged_df, env_tag_cost,
                   cost_comparison>>

\* Lines 100-168.  The exception of line 158 halts the script.
Tab2 ==
    /\ pc = "tab2"
    /\ untagged_df' = Untagged(filtered_df)
    /\ IF EnvTagCostRaises(filtered_df)
       THEN pc' = "crashed" /\ UNCHANGED env_tag_cost
       ELSE pc' = "tab3" /\ env_tag_cost' = EnvTagCost(filtered_df)
    /\ UNCHANGED <<file, selected, edits, df, filtered_df, metrics, cost_comparison>>

\* Lines 173-220.
Tab3 ==
    /\ pc = "tab3"
    /\ filtered_df' = WithScores(filtered_df)
    /\ untagged_df' = Untagged(WithScores(filtered_df))
    /\ pc' = "tab4"
    /\ UNCHANGED <<file, selected, edits, df, metrics, env_tag_cost, cost_comparison>>

\* Lines 225-290: the charts read filtered_df and change nothing.
Tab4 ==
    /\ pc = "tab4"
    /\ pc' = IF DeptTagCostRaises(filtered_df) THEN "crashed" ELSE "tab5"
    /\ UNCHANGED <<file, selected, edits, df, filtered_df, untagged_df, metrics,
                   env_tag_cost, cost_comparison>>

\* Mutant of Tab5: the edits are also written into filtered_df, as they
\* would be were untagged_df a view of it.
Tab5ThroughView ==
    /\ pc = "tab5"
    /\ untagged_df' = AssignTags(untagged_df, DataEditor(TagColumns(untagged_df), edits))
    /\ filtered_df' = Update(filtered_df, untagged_df')
    /\ df' = Remediated(df, untagged_df, edits)
    /\ cost_comparison' = CostComparison(Remediated(df, untagged_df, edits), filtered_df')
    /\ pc' = "done"
    /\ UNCHANGED <<file, selected, edits, metrics, env_tag_cost>>

\* Lines 295-345.
Tab5 ==
    /\ pc = "tab5"
    /\ untagged_df' = AssignTags(untagged_df, DataEditor(TagColumns(untagged_df), edits))
    /\ df' = Remediated(df, untagged_df, edits)
    /\ cost_comparison' = CostComparison(Remediated(df, untagged_df, edits), filtered_df)
    /\ pc' = "done"
    /\ UNCHANGED <<file, selected, edits, filtered_df, metrics, env_tag_cost>>

\* An interaction re-runs the script from line 1: the table is read again
\* (lines 19-29) and every script variable is rebuilt.
Rerun ==
    /\ pc' = "filter"
    /\ df' = LoadCsv(file)
    /\ filtered_df' = NoFrame
    /\ untagged_df' = NoFrame
    /\ metrics' = NoMetrics
    /\ env_tag_cost' = NoRows
    /\ cost_comparison' = NoRows
    /\ UNCHANGED file

\* The user changes one multiselect (lines 36-45).  The data editor is a new
\* widget when its input data changed, and keeps its state otherwise.
ChangeFilter(col, values) ==
    /\ pc \in {"done", "crashed"}
    /\ values \subseteq AllOptions(file)[col]
    /\ values # selected[col]
    /\ selected' = [selected EXCEPT ![col] = values]
    /\ edits' \in {edits, {}}
    /\ Rerun

\* The user edits the grid (lines 299-303): the operation replaces a pending
\* one on the same target.
EditGrid(op) ==
    /\ pc = "done"
    /\ op.kind # "add" => op.row \in Index(untagged_df)
    /\ op \notin edits
    /\ edits' = {o \in edits : ~ SameTarget(o, op)} \cup {op}
    /\ Cardinality(edits') <= MaxEdits
    /\ UNCHANGED selected
    /\ Rerun

Next ==
    \/ Filter
    \/ Tab1
    \/ Tab2
    \/ Tab3
    \/ Tab4
    \/ Tab5
    \/ \E col \in FilterColumns : \E values \in SUBSET Options(LoadCsv(file), col) :
          ChangeFilter(col, values)
    \/ \E op \in EditOps : EditGrid(op)

Spec == Init /\ [][Next]_vars

TypeOK ==
    /\ pc \in {"filter", "tab1", "tab2", "tab3", "tab4", "tab5", "done", "crashed"}
    /\ Cardinality(edits) <= MaxEdits
    /\ Index(df) = Rows
    /\ Index(filtered_df) \subseteq Rows

\* ------------------------------------------------------------- properties
\* The table as read from the file; df equals it until line 304 of a run.
Loaded == LoadCsv(file)

AfterTab1 == pc \notin {"filter", "tab1"}
AfterTab2 == pc \notin {"filter", "tab1", "tab2"}
InRun == pc \in {"tab1", "tab2", "tab3", "tab4", "tab5"}
RemediationStep == pc = "tab5" /\ pc' = "done"

Complete(row) == \A f \in tag_fields : row[f] # NaN

\* C1: the filtered subset is exactly the rows whose Service, Region,
\* Department and Project are each a member of the column's selection; a row
\* with a missing value in one of the four is never in it, and an empty
\* selection in one column gives an empty subset.
C1_FilterIsMembership ==
    pc # "filter" =>
        /\ Index(filtered_df) =
              {r \in Rows : \A c \in FilterColumns : Loaded.rows[r][c] \in selected[c]}
        /\ \A r \in Index(filtered_df) : \A c \in Columns :
              filtered_df.rows[r][c] = Loaded.rows[r][c]
        /\ \A r \in Rows :
              (\E c \in FilterColumns : Loaded.rows[r][c] = NaN) => r \notin Index(filtered_df)
        /\ (\E c \in FilterColumns : selected[c] = {}) => Index(filtered_df) = {}

\* A narrowed selection keeps one row and excludes another that has all four
\* values, next to a row excluded for a missing value (or the same row).
C1_Witness ==
    /\ pc = "tab1"
    /\ Index(filtered_df) # {}
    /\ \E r \in Rows \ Index(filtered_df) :
          \A c \in FilterColumns : Loaded.rows[r][c] # NaN

\* C2: after a remediation step every row of the full table with Department,
\* Project and Owner all present has Tagged = "Yes", and every row with one of
\* them missing has the Tagged value it had before the step.
C2_RemediationDerivesTagged ==
    [][RemediationStep =>
         \A r \in Rows :
            /\ Complete(df'.rows[r]) => df'.rows[r]["Tagged"] = "Yes"
            /\ ~ Complete(df'.rows[r]) => df'.rows[r]["Tagged"] = df.rows[r]["Tagged"]]_vars

\* An edit completed an untagged row, which became "Yes", while a row with a
\* missing Owner kept its "Yes".
C2_Witness ==
    /\ pc = "done"
    /\ edits # {}
    /\ \E r \in Rows :
          /\ Loaded.rows[r]["Tagged"] = "No"
          /\ ~ Complete(Loaded.rows[r])
          /\ df.rows[r]["Tagged"] = "Yes"
    /\ \E r \in Rows :
          /\ ~ Complete(df.rows[r])
          /\ df.rows[r]["Tagged"] = "Yes"

\* C3: an edit merged into the full table stays in it for the rest of the
\* session: the table the next run starts from still holds every cell in
\* which the table differed from the file at the end of the previous run.
C3_EditsPersist ==
    [][pc = "done" =>
         \A r \in Rows : \A c \in tag_fields :
            df.rows[r][c] # Loaded.rows[r][c] =>
               /\ df'.rows[r][c] = df.rows[r][c]
               /\ df'.rows[r]["Tagged"] = df.rows[r]["Tagged"]]_vars

\* C4: the Tagged count plus the Untagged count is the total count of filtered
\* rows, in every filter state; all three are zero when every row is excluded.
C4_CountsAddUp ==
    AfterTab1 =>
        /\ metrics.total = Cardinality(Index(filtered_df))
        /\ metrics.tagged + metrics.untagged = metrics.total
        /\ Index(filtered_df) = {} => metrics.tagged = 0 /\ metrics.untagged = 0

\* A selection that excludes every row of a table, after tab 1 reported.
C4_Witness ==
    /\ pc = "tab2"
    /\ \E c \in FilterColumns : selected[c] = {}
    /\ metrics.total = 0

\* C5: percent_untagged is (rows with Tagged = "No") / (rows) x 100 over the
\* filtered subset, and 0 when the subset is empty.
C5_PercentUntagged ==
    AfterTab1 =>
        metrics.percent_untagged =
            IF Index(filtered_df) = {} THEN 0
            ELSE Round2(Cardinality({r \in Index(filtered_df) :
                                       filtered_df.rows[r]["Tagged"] = "No"}),
                        Cardinality(Index(filtered_df)))

\* C6: for every Environment present in the filtered subset the cross-tab
\* has a row with the Yes-sum, the No-sum (0 when there is none), their
\* total, and the untagged share of the total, 0 when the total is 0.
C6_EnvCrossTab ==
    AfterTab2 =>
        \A e \in Options(filtered_df, "Environment") :
            /\ e \in DOMAIN env_tag_cost
            /\ LET in_e(t) == {r \in Index(filtered_df) :
                                  /\ filtered_df.rows[r]["Environment"] = e
                                  /\ filtered_df.rows[r]["Tagged"] = t}
                   yes == SumCost(filtered_df.rows, in_e("Yes"))
                   no == SumCost(filtered_df.rows, in_e("No"))
               IN  /\ env_tag_cost[e].TaggedCost = Fmt(yes)
                   /\ env_tag_cost[e].UntaggedCost = Fmt(no)
                   /\ env_tag_cost[e].TotalCost = Fmt(yes + no)
                   /\ env_tag_cost[e].PctUntagged =
                         IF yes + no = 0 THEN 0 ELSE Round2(no, yes + no)

\* C7: after a remediation step the full table's Department, Project and
\* Owner of every row shown in the grid equal what the grid holds for it after
\* the edits, a cleared cell included.
C7_GridWrittenBack ==
    [][RemediationStep =>
         LET grid == DataEditor(TagColumns(untagged_df), edits)
         IN  \A r \in Index(untagged_df) \cap Index(grid) : \A f \in tag_fields :
                df'.rows[r][f] = grid.rows[r][f]]_vars

\* C8: in the comparison the "before" figure of a Tagged status is the cost
\* sum over the full table before the remediation step, the "after" figure the
\* sum over the table after it.
C8_BeforeAfter ==
    [][RemediationStep =>
         \A l \in DOMAIN cost_comparison' :
            /\ cost_comparison'[l].Before =
                  Fmt(SumCost(df.rows, {r \in Rows : df.rows[r]["Tagged"] = l}))
            /\ cost_comparison'[l].After =
                  Fmt(SumCost(df'.rows, {r \in Rows : df'.rows[r]["Tagged"] = l}))]_vars

Edited(r) ==
    /\ r \in Index(untagged_df)
    /\ \E o \in edits : o.kind = "cell" /\ o.row = r

=============================================================================
